---------------------------- MODULE Spec2Model ----------------------------
(***************************************************************************)
(* The review file parser of prr (src/src/parser.rs): a line-oriented      *)
(* state machine fed one input line per parse_line call and closed by      *)
(* finish.  A line is a sequence of one-character strings, so that the     *)
(* prefix tests, the trimming, the joining and the two regular expressions *)
(* of the source are computed on the characters, as the code computes      *)
(* them.                                                                   *)
(***************************************************************************)
EXTENDS Integers, Sequences, FiniteSets, TLC

VARIABLES
    state,   \* ReviewParser.state: the State enum with its payload
    phase,   \* "parsing" | "failed" (a parse_line call returned Err) | "finished"
    inp,     \* the raw line given to the last parse_line call
    ret,     \* what the last parse_line / finish call returned
    g,       \* history of the input consumed so far (see GhostStep)
    ctx,     \* the history as it was before the call that returned an Inline
    script,  \* the input of a scripted run and the number of its lines fed
    build    \* how the build treats an overflow of u64 (see Builds)

vars == <<state, phase, inp, ret, g, ctx, script, build>>

-----------------------------------------------------------------------------
(* Bounds of the model. *)

\* largest left / right line number the tracked position may reach
MaxLineNo == 2
\* largest number of lines held in a prose buffer (StartState.comment,
\* CommentState.comment)
MaxComment == 2

-----------------------------------------------------------------------------
(* Option and Result values. *)

None == [tag |-> "None"]
Some(x) == [tag |-> "Some", v |-> x]
Ok(x) == [tag |-> "Ok", v |-> x]
Err(m) == [tag |-> "Err", msg |-> m]

IsSome(o) == o.tag = "Some"
IsErr(r) == r.tag = "Err"
IsOk(r) == r.tag = "Ok"

-----------------------------------------------------------------------------
(* Strings as sequences of characters. *)

Digits == <<"0", "1", "2", "3", "4", "5", "6", "7", "8", "9">>

is_digit(c) == \E i \in 1..Len(Digits) : Digits[i] = c

digit_value(c) == (CHOOSE i \in 1..Len(Digits) : Digits[i] = c) - 1

\* char::is_whitespace, on the characters the model uses
is_whitespace(c) == c \in {" ", "\t", "\n"}

\* str::starts_with
starts_with(s, p) == Len(s) >= Len(p) /\ SubSeq(s, 1, Len(p)) = p

\* str::trim_start
RECURSIVE trim_start(_)
trim_start(s) ==
    IF s # <<>> /\ is_whitespace(Head(s)) THEN trim_start(Tail(s)) ELSE s

\* str::trim_end
RECURSIVE trim_end(_)
trim_end(s) ==
    IF s # <<>> /\ is_whitespace(s[Len(s)])
    THEN trim_end(SubSeq(s, 1, Len(s) - 1))
    ELSE s

\* str::trim
trim(s) == trim_start(trim_end(s))

\* [String]::join("\n")
RECURSIVE join(_)
join(lines) ==
    IF lines = <<>> THEN <<>>
    ELSE IF Len(lines) = 1 THEN lines[1]
    ELSE lines[1] \o <<"\n">> \o join(Tail(lines))

\* str::strip_prefix
strip_prefix(s, p) ==
    IF starts_with(s, p) THEN Some(SubSeq(s, Len(p) + 1, Len(s))) ELSE None

\* the end of the longest run of digits of s that starts at position i
\* (i - 1 when s has no digit there)
RECURSIVE digits_end(_, _)
digits_end(s, i) ==
    IF i <= Len(s) /\ is_digit(s[i]) THEN digits_end(s, i + 1) ELSE i - 1

\* str::parse::<u64> of a run of digits
RECURSIVE parse_u64(_)
parse_u64(ds) ==
    IF ds = <<>> THEN 0
    ELSE 10 * parse_u64(SubSeq(ds, 1, Len(ds) - 1)) + digit_value(ds[Len(ds)])

\* a run of digits without its leading zeros
RECURSIVE dec_strip(_)
dec_strip(ds) ==
    IF Len(ds) > 1 /\ Head(ds) = "0" THEN dec_strip(Tail(ds)) ELSE ds

\* a <= b, for two runs of digits of the same length
RECURSIVE dec_leq_same(_, _)
dec_leq_same(a, b) ==
    IF a = <<>> THEN TRUE
    ELSE IF Head(a) = Head(b) THEN dec_leq_same(Tail(a), Tail(b))
    ELSE digit_value(Head(a)) < digit_value(Head(b))

\* a <= b, for the numbers two runs of digits stand for
dec_leq(a, b) ==
    LET x == dec_strip(a)
        y == dec_strip(b)
    IN  Len(x) < Len(y) \/ (Len(x) = Len(y) /\ dec_leq_same(x, y))

\* the digits 1..i of x + y with the carry from the digits after them, for
\* two runs of digits of the same length
RECURSIVE dec_add_from(_, _, _, _)
dec_add_from(x, y, i, carry) ==
    IF i = 0 THEN (IF carry = 1 THEN <<"1">> ELSE <<>>)
    ELSE LET s == digit_value(x[i]) + digit_value(y[i]) + carry
         IN  dec_add_from(x, y, i - 1, s \div 10) \o <<Digits[(s % 10) + 1]>>

\* the digits of a + b
dec_add(a, b) ==
    LET n == IF Len(a) >= Len(b) THEN Len(a) ELSE Len(b)
        x == [i \in 1..(n - Len(a)) |-> "0"] \o a
        y == [i \in 1..(n - Len(b)) |-> "0"] \o b
    IN  dec_strip(dec_add_from(x, y, n, 0))

\* u64::MAX and u64::MAX + 1, in digits
U64Max == <<"1", "8", "4", "4", "6", "7", "4", "4", "0", "7", "3", "7", "0", "9", "5", "5", "1", "6", "1", "5">>
TwoTo64 == <<"1", "8", "4", "4", "6", "7", "4", "4", "0", "7", "3", "7", "0", "9", "5", "5", "1", "6", "1", "6">>

\* str::parse::<u64> returns Ok on these runs of digits
fits_u64(ds) == dec_leq(ds, U64Max)

\* the u64 a run of digits stands for: an integer up to nine digits, the
\* digits themselves beyond
u64_of(ds) ==
    IF Len(dec_strip(ds)) <= 9 THEN parse_u64(ds) ELSE [digits |-> dec_strip(ds)]

\* how a + b on u64 ends when the sum does not fit: a build with overflow
\* checks panics, a build without them wraps
Builds == {"overflow-checks", "wrapping"}
Panic(m) == [tag |-> "Panic", msg |-> m]

\* u64::saturating_sub
saturating_sub(a, b) == IF a >= b THEN a - b ELSE 0

-----------------------------------------------------------------------------
(* The fixed texts of the source. *)

QuotePrefix == <<">", " ">>
DiffGitPrefix == <<"d", "i", "f", "f", " ", "-", "-", "g", "i", "t", " ">>
DiffAPrefix == DiffGitPrefix \o <<"a", "/">>
DiffBSep == <<" ", "b", "/">>
PrrPrefix == <<"@", "p", "r", "r", " ">>
HunkOpen == <<"@", "@", " ", "-">>
HunkMid == <<" ", "+">>
HunkClose == <<" ", "@", "@">>
Approve == <<"a", "p", "p", "r", "o", "v", "e">>
Reject == <<"r", "e", "j", "e", "c", "t">>
CommentWord == <<"c", "o", "m", "m", "e", "n", "t">>


\* the characters m..n of s, empty when they are not all there
sub(s, m, n) == IF 1 <= m /\ m <= n /\ n <= Len(s) THEN SubSeq(s, m, n) ELSE <<>>

\* s from position m to its end
from(s, m) == IF m <= Len(s) THEN SubSeq(s, m, Len(s)) ELSE <<>>

-----------------------------------------------------------------------------
(* The data model. *)

\* LineLocation::{Left, Right, Both}(u64, u64)
Left(l, r) == [tag |-> "Left", l |-> l, r |-> r]
Right(l, r) == [tag |-> "Right", l |-> l, r |-> r]
Both(l, r) == [tag |-> "Both", l |-> l, r |-> r]

\* Comment::Review(String)
Review(text) == [kind |-> "Review", text |-> text]

\* Comment::Inline(InlineComment { .. })
Inline(old_file, new_file, line, start_line, comment) ==
    [kind |-> "Inline", old_file |-> old_file, new_file |-> new_file,
     line |-> line, start_line |-> start_line, comment |-> comment]

\* Comment::ReviewAction(ReviewAction::{Approve, RequestChanges, Comment})
ReviewAction(a) == [kind |-> "ReviewAction", action |-> a]

\* State::Start(StartState { comment })
Start(comment) == [kind |-> "Start", comment |-> comment]

\* State::FilePreamble(FilePreambleState { old_file, new_file })
FilePreamble(old_file, new_file) ==
    [kind |-> "FilePreamble", old_file |-> old_file, new_file |-> new_file]

\* FileDiffState { old_file, new_file, left_line, right_line, line, span_start_line }
FileDiffState(old_file, new_file, left_line, right_line, line, span_start_line) ==
    [old_file |-> old_file, new_file |-> new_file,
     left_line |-> left_line, right_line |-> right_line,
     line |-> line, span_start_line |-> span_start_line]

\* State::FileDiff(FileDiffState); the payload is held in the same field in
\* the three states that carry it
FileDiff(fds) == [kind |-> "FileDiff", file_diff_state |-> fds]

\* State::SpanStartOrComment(SpanStartOrCommentState { file_diff_state })
SpanStartOrComment(fds) == [kind |-> "SpanStartOrComment", file_diff_state |-> fds]

\* State::Comment(CommentState { file_diff_state, comment })
Comment(fds, comment) ==
    [kind |-> "Comment", file_diff_state |-> fds, comment |-> comment]

\* the states that carry a FileDiffState
HasFileDiff(st) == st.kind \in {"FileDiff", "SpanStartOrComment", "Comment"}

-----------------------------------------------------------------------------
(* The line classifier. *)

is_diff_header(s) == starts_with(s, DiffGitPrefix)

\* is_prr_directive without the trim: a variant that C9 tells apart
is_prr_directive_untrimmed(s) == strip_prefix(s, PrrPrefix)

\* Some(directive) when the trimmed line starts with "@prr "
is_prr_directive(s) == strip_prefix(trim(s), PrrPrefix)

\* DIFF_START = ^diff --git a/(?P<old>.+) b/(?P<new>.+)$ : the positions, in
\* the text after "diff --git a/", where " b/" starts with at least one
\* character on each side of it
diff_start_splits(rest) ==
    {i \in 2..(Len(rest) - 3) : sub(rest, i, i + 2) = DiffBSep}

\* the captures of DIFF_START: old is greedy, so it ends at the last split
diff_start_captures(line) ==
    IF ~starts_with(line, DiffAPrefix) THEN None
    ELSE LET rest == from(line, Len(DiffAPrefix) + 1)
             splits == diff_start_splits(rest)
         IN  IF splits = {} THEN None
             ELSE LET i == CHOOSE j \in splits : \A k \in splits : k <= j
                  IN  Some([old |-> sub(rest, 1, i - 1),
                            new |-> from(rest, i + 3)])

\* parse_diff_header keeping the captures as they are: a variant that C19
\* tells apart
parse_diff_header_untrimmed(line) ==
    LET captures == diff_start_captures(line)
    IN  IF IsSome(captures)
        THEN Ok([old |-> captures.v.old, new |-> captures.v.new])
        ELSE Err("InvalidDiffHeader")

parse_diff_header(line) ==
    LET captures == diff_start_captures(line)
    IN  IF IsSome(captures)
        THEN Ok([old |-> trim(captures.v.old), new |-> trim(captures.v.new)])
        ELSE Err("InvalidDiffHeader")

\* the captures of HUNK_START = ^@@ -(?P<lstart>\d+),\d+ \+(?P<rstart>\d+),\d+ @@
hunk_start_captures(line) ==
    LET l1 == Len(HunkOpen) + 1
        l2 == digits_end(line, l1)
        n1 == l2 + 2
        n2 == digits_end(line, n1)
        r1 == n2 + 3
        r2 == digits_end(line, r1)
        m1 == r2 + 2
        m2 == digits_end(line, m1)
    IN  IF /\ starts_with(line, HunkOpen)
           /\ l2 >= l1
           /\ sub(line, l2 + 1, l2 + 1) = <<",">>
           /\ n2 >= n1
           /\ sub(line, n2 + 1, n2 + 2) = HunkMid
           /\ r2 >= r1
           /\ sub(line, r2 + 1, r2 + 1) = <<",">>
           /\ m2 >= m1
           /\ sub(line, m2 + 1, m2 + 3) = HunkClose
        THEN Some([lstart |-> sub(line, l1, l2), rstart |-> sub(line, r1, r2)])
        ELSE None

\* parse_hunk_start rejecting a header as soon as one start is zero: a
\* variant that C10 tells apart
parse_hunk_start_either_zero(line, overflow) ==
    LET captures == hunk_start_captures(line)
    IN  IF IsSome(captures)
        THEN LET hunk_start_line_left == parse_u64(captures.v.lstart)
                 hunk_start_line_right == parse_u64(captures.v.rstart)
             IN  IF hunk_start_line_left = 0 \/ hunk_start_line_right = 0
                 THEN Err("BothHunksZero")
                 ELSE Ok(Some(<<hunk_start_line_left, hunk_start_line_right>>))
        ELSE Ok(None)

\* the test of the starts of a hunk header: Err when a start is no u64 or
\* when the sum of the starts is zero; the sum is a sum of u64, which panics
\* or wraps when it does not fit, as `overflow` (one of Builds) tells
hunk_starts_checked(lstart, rstart, sum, overflow) ==
    IF ~fits_u64(lstart) THEN Err("ParseHunkStartLeft")
    ELSE IF ~fits_u64(rstart) THEN Err("ParseHunkStartRight")
    ELSE IF ~fits_u64(sum)
    THEN CASE overflow = "overflow-checks" -> Panic("AddOverflow")
           [] overflow = "wrapping" ->
                  IF sum = TwoTo64
                  THEN Err("BothHunksZero")
                  ELSE Ok(Some(<<u64_of(lstart), u64_of(rstart)>>))
    ELSE IF sum = <<"0">>
    THEN Err("BothHunksZero")
    ELSE Ok(Some(<<u64_of(lstart), u64_of(rstart)>>))

\* parse_hunk_start once the pattern was tried on the line
hunk_start_of(captures, overflow) ==
    IF IsSome(captures)
    THEN hunk_starts_checked(captures.v.lstart, captures.v.rstart,
                             dec_add(captures.v.lstart, captures.v.rstart),
                             overflow)
    ELSE Ok(None)

\* Ok(Some((lstart, rstart))), Ok(None) for a line that is no hunk header,
\* Err when a start is no u64 or when both starts are zero
parse_hunk_start(line, overflow) ==
    hunk_start_of(hunk_start_captures(line), overflow)

is_left_line(line) == starts_with(line, <<"-">>)

is_right_line(line) == starts_with(line, <<"+">>)

-----------------------------------------------------------------------------
(* The line-number tracker. *)

\* get_next_lines counting a context line on the left side only: a variant
\* that C20 tells apart
get_next_lines_context_left(line, left, right) ==
    IF is_right_line(line) THEN <<left, right + 1>> ELSE <<left + 1, right>>

get_next_lines(line, left, right) ==
    IF is_left_line(line) THEN <<left + 1, right>>
    ELSE IF is_right_line(line) THEN <<left, right + 1>>
    ELSE <<left + 1, right + 1>>

\* line_location without the test of the sides: a variant that C12 tells
\* apart
line_location_both(line, left, right) == Both(left, right)

\* the LineLocation of a consumed line: the if / else if / else on
\* is_left_line and is_right_line that follows every position update
line_location(line, left, right) ==
    IF is_left_line(line) THEN Left(left, right)
    ELSE IF is_right_line(line) THEN Right(left, right)
    ELSE Both(left, right)

-----------------------------------------------------------------------------
(* The review state machine.  Each operator gives, for one arm of the      *)
(* match of parse_line, the next state and the returned value; an Err      *)
(* leaves the state as it was.                                             *)

Step(st, result) == [state |-> st, result |-> result]

\* the pending inline comment of a Comment state
pending_inline(st) ==
    Inline(st.file_diff_state.old_file,
           st.file_diff_state.new_file,
           st.file_diff_state.line,
           st.file_diff_state.span_start_line,
           trim_end(join(st.comment)))

\* hunk_entry with a plain subtraction: a variant that C13 tells apart
hunk_entry_unsaturated(line, old_file, new_file, starts) ==
    FileDiffState(old_file, new_file, starts[1] - 1, starts[2] - 1,
                  line_location(line, starts[1] - 1, starts[2] - 1), None)

\* the entry into a hunk: one before the starts of the header, never below 0
hunk_entry(line, old_file, new_file, starts) ==
    LET left_start == saturating_sub(starts[1], 1)
        right_start == saturating_sub(starts[2], 1)
    IN  FileDiffState(old_file, new_file, left_start, right_start,
                      line_location(line, left_start, right_start), None)

\* the @prr directive of a line of the Start state
directive_result(d) ==
    IF d = Approve THEN Ok(Some(ReviewAction("Approve")))
    ELSE IF d = Reject THEN Ok(Some(ReviewAction("RequestChanges")))
    ELSE IF d = CommentWord THEN Ok(Some(ReviewAction("Comment")))
    ELSE Err("UnknownDirective")

\* start_quoted returning the review comment without leaving Start: a
\* variant that C3 tells apart
start_quoted_stays(st, line) ==
    IF ~is_diff_header(line)
    THEN Step(st, Err("ExpectedDiffHeader"))
    ELSE LET review_comment ==
                 IF st.comment # <<>>
                 THEN Some(Review(trim(join(st.comment))))
                 ELSE None
             header == parse_diff_header(line)
         IN  IF IsErr(header) THEN Step(st, header) ELSE Step(st, Ok(review_comment))

\* start_quoted passing over a quoted line that is no diff header: a variant
\* that C24 tells apart
start_quoted_passes_over(st, line) ==
    IF ~is_diff_header(line)
    THEN Step(st, Ok(None))
    ELSE LET review_comment ==
                 IF st.comment # <<>>
                 THEN Some(Review(trim(join(st.comment))))
                 ELSE None
             header == parse_diff_header(line)
         IN  IF IsErr(header)
             THEN Step(st, header)
             ELSE Step(FilePreamble(header.v.old, header.v.new),
                       Ok(review_comment))

\* Start, a quoted line: the first diff header ends the review comment
start_quoted(st, line) ==
    IF ~is_diff_header(line)
    THEN Step(st, Err("ExpectedDiffHeader"))
    ELSE LET review_comment ==
                 IF st.comment # <<>>
                 THEN Some(Review(trim(join(st.comment))))
                 ELSE None
             header == parse_diff_header(line)
         IN  IF IsErr(header)
             THEN Step(st, header)
             ELSE Step(FilePreamble(header.v.old, header.v.new),
                       Ok(review_comment))

\* start_unquoted keeping the blank lines before the first line of prose: a
\* variant that C23 tells apart
start_unquoted_keeps_blank(st, line) ==
    LET d == is_prr_directive(line)
    IN  IF IsSome(d)
        THEN Step(st, directive_result(d.v))
        ELSE Step(Start(Append(st.comment, line)), Ok(None))

\* start_unquoted adding the directive line to the review comment: a
\* variant that C18 tells apart
start_unquoted_keeps_directive(st, line) ==
    LET d == is_prr_directive(line)
    IN  IF IsSome(d)
        THEN Step(Start(Append(st.comment, line)), directive_result(d.v))
        ELSE IF st.comment # <<>> \/ trim(line) # <<>>
             THEN Step(Start(Append(st.comment, line)), Ok(None))
             ELSE Step(st, Ok(None))

\* Start, an unquoted line: a directive, or a line of the review comment
start_unquoted(st, line) ==
    LET d == is_prr_directive(line)
    IN  IF IsSome(d)
        THEN Step(st, directive_result(d.v))
        ELSE IF st.comment # <<>> \/ trim(line) # <<>>
             THEN Step(Start(Append(st.comment, line)), Ok(None))
             ELSE Step(st, Ok(None))

parse_line_Start(st, is_quoted, line) ==
    IF is_quoted THEN start_quoted(st, line) ELSE start_unquoted(st, line)

\* preamble_unquoted passing over the line: a variant that C8 tells apart
preamble_unquoted_ignored(st) == Step(st, Ok(None))

\* FilePreamble, an unquoted line
preamble_unquoted(st) == Step(st, Err("UnexpectedCommentInPreamble"))

\* preamble_quoted entering the hunk at the starts of the header, not one
\* before them: a variant that C21 tells apart
preamble_quoted_at_starts(st, line, overflow) ==
    LET hunk == parse_hunk_start(line, overflow)
    IN  IF ~IsOk(hunk)
        THEN Step(st, hunk)
        ELSE IF IsSome(hunk.v)
             THEN Step(FileDiff(FileDiffState(st.old_file, st.new_file,
                                              hunk.v.v[1], hunk.v.v[2],
                                              Both(hunk.v.v[1], hunk.v.v[2]),
                                              None)),
                       Ok(None))
             ELSE Step(st, Ok(None))

\* preamble_quoted taking the paths of a further diff header: a variant that
\* C26 tells apart
preamble_quoted_takes_header(st, line, overflow) ==
    LET hunk == parse_hunk_start(line, overflow)
        header == parse_diff_header(line)
    IN  IF ~IsOk(hunk)
        THEN Step(st, hunk)
        ELSE IF IsSome(hunk.v)
             THEN Step(FileDiff(hunk_entry(line, st.old_file, st.new_file,
                                           hunk.v.v)),
                       Ok(None))
             ELSE IF is_diff_header(line) /\ ~IsErr(header)
                  THEN Step(FilePreamble(header.v.old, header.v.new), Ok(None))
                  ELSE Step(st, Ok(None))

\* FilePreamble, a quoted line: a hunk header enters the hunk, any other
\* line is passed over
preamble_quoted(st, line, overflow) ==
    LET hunk == parse_hunk_start(line, overflow)
    IN  IF ~IsOk(hunk)
        THEN Step(st, hunk)
        ELSE IF IsSome(hunk.v)
             THEN Step(FileDiff(hunk_entry(line, st.old_file, st.new_file,
                                           hunk.v.v)),
                       Ok(None))
             ELSE Step(st, Ok(None))

parse_line_FilePreamble(st, is_quoted, line, overflow) ==
    IF ~is_quoted
    THEN preamble_unquoted(st)
    ELSE preamble_quoted(st, line, overflow)

\* FileDiff, a quoted diff header
file_diff_diff_header(st, line) ==
    IF IsSome(st.file_diff_state.span_start_line)
    THEN Step(st, Err("UnterminatedSpan"))
    ELSE LET header == parse_diff_header(line)
         IN  IF IsErr(header)
             THEN Step(st, header)
             ELSE Step(FilePreamble(header.v.old, header.v.new), Ok(None))

\* file_diff_hunk_header without the test of the open span: a variant that
\* C6 tells apart
file_diff_hunk_header_unchecked(st, line, starts) ==
    LET left_start == saturating_sub(starts[1], 1)
        right_start == saturating_sub(starts[2], 1)
    IN  Step(FileDiff([st.file_diff_state EXCEPT
                           !.left_line = left_start,
                           !.right_line = right_start,
                           !.line = line_location(line, left_start, right_start)]),
             Ok(None))

\* FileDiff, a quoted hunk header
file_diff_hunk_header(st, line, starts) ==
    IF IsSome(st.file_diff_state.span_start_line)
    THEN Step(st, Err("CrossChunkSpan"))
    ELSE LET left_start == saturating_sub(starts[1], 1)
             right_start == saturating_sub(starts[2], 1)
         IN  Step(FileDiff([st.file_diff_state EXCEPT
                                !.left_line = left_start,
                                !.right_line = right_start,
                                !.line = line_location(line, left_start,
                                                       right_start)]),
                  Ok(None))

\* file_diff_body_line moving an open span to the line it consumes: a
\* variant that C11 tells apart
file_diff_body_line_moves_span(st, line) ==
    LET next == get_next_lines(line, st.file_diff_state.left_line,
                               st.file_diff_state.right_line)
        loc == line_location(line, next[1], next[2])
    IN  Step(FileDiff([st.file_diff_state EXCEPT
                           !.left_line = next[1],
                           !.right_line = next[2],
                           !.line = loc,
                           !.span_start_line = IF IsSome(@) THEN Some(loc) ELSE @]),
             Ok(None))

\* file_diff_body_line leaving `line` on the line before: a variant that C33
\* tells apart
file_diff_body_line_keeps_line(st, line) ==
    LET next == get_next_lines(line, st.file_diff_state.left_line,
                               st.file_diff_state.right_line)
    IN  Step(FileDiff([st.file_diff_state EXCEPT
                           !.left_line = next[1],
                           !.right_line = next[2]]),
             Ok(None))

\* FileDiff, any other quoted line: a line of the body of the hunk
file_diff_body_line(st, line) ==
    LET next == get_next_lines(line, st.file_diff_state.left_line,
                               st.file_diff_state.right_line)
    IN  Step(FileDiff([st.file_diff_state EXCEPT
                           !.left_line = next[1],
                           !.right_line = next[2],
                           !.line = line_location(line, next[1], next[2])]),
             Ok(None))

\* file_diff_unquoted starting the comment at a blank line: a variant that
\* C34 tells apart
file_diff_unquoted_takes_blank(st, line) ==
    Step(Comment(st.file_diff_state, <<line>>), Ok(None))

\* file_diff_unquoted acting on a directive as the Start state does: a
\* variant that C27 tells apart
file_diff_unquoted_acts(st, line) ==
    LET d == is_prr_directive(line)
    IN  IF IsSome(d)
        THEN Step(FileDiff(st.file_diff_state), directive_result(d.v))
        ELSE IF trim(line) = <<>>
             THEN Step(SpanStartOrComment(st.file_diff_state), Ok(None))
             ELSE Step(Comment(st.file_diff_state, <<line>>), Ok(None))

\* FileDiff, an unquoted line
file_diff_unquoted(st, line) ==
    IF trim(line) = <<>>
    THEN Step(SpanStartOrComment(st.file_diff_state), Ok(None))
    ELSE Step(Comment(st.file_diff_state, <<line>>), Ok(None))

parse_line_FileDiff(st, is_quoted, line, overflow) ==
    IF is_quoted
    THEN IF is_diff_header(line)
         THEN file_diff_diff_header(st, line)
         ELSE LET hunk == parse_hunk_start(line, overflow)
              IN  IF ~IsOk(hunk)
                  THEN Step(st, hunk)
                  ELSE IF IsSome(hunk.v)
                       THEN file_diff_hunk_header(st, line, hunk.v.v)
                       ELSE file_diff_body_line(st, line)
    ELSE file_diff_unquoted(st, line)

\* span_start without the test of the open span: a variant that C7 tells
\* apart
span_start_unchecked(st, line) ==
    LET next == get_next_lines(line, st.file_diff_state.left_line,
                               st.file_diff_state.right_line)
        loc == line_location(line, next[1], next[2])
    IN  Step(FileDiff(FileDiffState(st.file_diff_state.old_file,
                                    st.file_diff_state.new_file,
                                    next[1], next[2], loc, Some(loc))),
             Ok(None))

\* span_start taking a diff header as the header of the next file: a variant
\* that C29 tells apart
span_start_takes_header(st, line) ==
    IF IsSome(st.file_diff_state.span_start_line)
    THEN Step(st, Err("UnterminatedSpan"))
    ELSE IF is_diff_header(line) /\ ~IsErr(parse_diff_header(line))
    THEN Step(FilePreamble(parse_diff_header(line).v.old,
                           parse_diff_header(line).v.new),
              Ok(None))
    ELSE LET next == get_next_lines(line, st.file_diff_state.left_line,
                                    st.file_diff_state.right_line)
             loc == line_location(line, next[1], next[2])
         IN  Step(FileDiff(FileDiffState(st.file_diff_state.old_file,
                                         st.file_diff_state.new_file,
                                         next[1], next[2], loc, Some(loc))),
                  Ok(None))

\* SpanStartOrComment, a quoted line: the start of a span
span_start(st, line) ==
    IF IsSome(st.file_diff_state.span_start_line)
    THEN Step(st, Err("UnterminatedSpan"))
    ELSE LET next == get_next_lines(line, st.file_diff_state.left_line,
                                    st.file_diff_state.right_line)
             loc == line_location(line, next[1], next[2])
         IN  Step(FileDiff(FileDiffState(st.file_diff_state.old_file,
                                         st.file_diff_state.new_file,
                                         next[1], next[2], loc, Some(loc))),
                  Ok(None))

\* parse_line_SpanStartOrComment closing the open span at a blank line: a
\* variant that C28 tells apart
parse_line_SpanStartOrComment_drops_span(st, is_quoted, line) ==
    IF is_quoted
    THEN span_start(st, line)
    ELSE IF trim(line) = <<>>
         THEN Step(SpanStartOrComment([st.file_diff_state EXCEPT
                                           !.span_start_line = None]),
                   Ok(None))
         ELSE Step(Comment(st.file_diff_state, <<line>>), Ok(None))

parse_line_SpanStartOrComment(st, is_quoted, line) ==
    IF is_quoted
    THEN span_start(st, line)
    ELSE IF trim(line) = <<>>
         THEN Step(st, Ok(None))
         ELSE Step(Comment(st.file_diff_state, <<line>>), Ok(None))

\* comment_quoted leaving the span open behind the comment: a variant that
\* C15 tells apart
comment_quoted_keeps_span(st, line) ==
    LET comment == pending_inline(st)
    IN  IF is_diff_header(line)
        THEN LET header == parse_diff_header(line)
             IN  IF IsErr(header)
                 THEN Step(st, header)
                 ELSE Step(FilePreamble(header.v.old, header.v.new),
                           Ok(Some(comment)))
        ELSE LET next == get_next_lines(line, st.file_diff_state.left_line,
                                        st.file_diff_state.right_line)
             IN  Step(FileDiff([st.file_diff_state EXCEPT
                                    !.left_line = next[1],
                                    !.right_line = next[2],
                                    !.line = line_location(line, next[1], next[2])]),
                      Ok(Some(comment)))

\* comment_quoted giving up the comment before it reads the diff header: a
\* variant that C31 tells apart
comment_quoted_gives_up(st, line) ==
    LET comment == pending_inline(st)
    IN  IF is_diff_header(line)
        THEN LET header == parse_diff_header(line)
             IN  IF IsErr(header)
                 THEN Step(FileDiff(st.file_diff_state), header)
                 ELSE Step(FilePreamble(header.v.old, header.v.new),
                           Ok(Some(comment)))
        ELSE LET next == get_next_lines(line, st.file_diff_state.left_line,
                                        st.file_diff_state.right_line)
             IN  Step(FileDiff(FileDiffState(
                          st.file_diff_state.old_file,
                          st.file_diff_state.new_file,
                          next[1], next[2],
                          line_location(line, next[1], next[2]),
                          None)),
                      Ok(Some(comment)))

\* comment_quoted leaving the position where the comment was made: a variant
\* that C30 tells apart
comment_quoted_no_step(st, line) ==
    LET comment == pending_inline(st)
    IN  IF is_diff_header(line)
        THEN LET header == parse_diff_header(line)
             IN  IF IsErr(header)
                 THEN Step(st, header)
                 ELSE Step(FilePreamble(header.v.old, header.v.new),
                           Ok(Some(comment)))
        ELSE Step(FileDiff(FileDiffState(
                      st.file_diff_state.old_file,
                      st.file_diff_state.new_file,
                      st.file_diff_state.left_line,
                      st.file_diff_state.right_line,
                      line_location(line, st.file_diff_state.left_line,
                                    st.file_diff_state.right_line),
                      None)),
                  Ok(Some(comment)))

\* Comment, a quoted line: the pending comment is returned and the line is
\* taken as a diff header or, failing that, as a line of the body
comment_quoted(st, line) ==
    LET comment == pending_inline(st)
    IN  IF is_diff_header(line)
        THEN LET header == parse_diff_header(line)
             IN  IF IsErr(header)
                 THEN Step(st, header)
                 ELSE Step(FilePreamble(header.v.old, header.v.new),
                           Ok(Some(comment)))
        ELSE LET next == get_next_lines(line, st.file_diff_state.left_line,
                                        st.file_diff_state.right_line)
             IN  Step(FileDiff(FileDiffState(
                          st.file_diff_state.old_file,
                          st.file_diff_state.new_file,
                          next[1], next[2],
                          line_location(line, next[1], next[2]),
                          None)),
                      Ok(Some(comment)))

\* parse_line_Comment dropping the blank lines of the prose: a variant that
\* C16 tells apart
parse_line_Comment_skips_blank(st, is_quoted, line) ==
    IF is_quoted
    THEN comment_quoted(st, line)
    ELSE IF trim(line) = <<>>
         THEN Step(st, Ok(None))
         ELSE Step(Comment(st.file_diff_state, Append(st.comment, line)), Ok(None))

parse_line_Comment(st, is_quoted, line) ==
    IF is_quoted
    THEN comment_quoted(st, line)
    ELSE Step(Comment(st.file_diff_state, Append(st.comment, line)), Ok(None))

\* line.starts_with("> ")
is_quoted_line(raw) == starts_with(raw, QuotePrefix)

\* &line[2..] of a quoted line, the line itself otherwise
payload(raw) == IF is_quoted_line(raw) THEN from(raw, 3) ELSE raw

\* ReviewParser::parse_line
parse_line(st, raw, overflow) ==
    LET is_quoted == is_quoted_line(raw)
        line == payload(raw)
    IN  CASE st.kind = "Start" -> parse_line_Start(st, is_quoted, line)
          [] st.kind = "FilePreamble" ->
                 parse_line_FilePreamble(st, is_quoted, line, overflow)
          [] st.kind = "FileDiff" ->
                 parse_line_FileDiff(st, is_quoted, line, overflow)
          [] st.kind = "SpanStartOrComment" ->
                 parse_line_SpanStartOrComment(st, is_quoted, line)
          [] st.kind = "Comment" -> parse_line_Comment(st, is_quoted, line)

\* finish returning the pending comment without its span: a variant that
\* C17 tells apart
finish_without_span(st) ==
    IF st.kind = "Comment"
    THEN Some([pending_inline(st) EXCEPT !.start_line = None])
    ELSE None

\* finish dropping the pending comment: a variant that C32 tells apart
finish_drops_pending(st) == None

\* ReviewParser::finish
finish(st) == IF st.kind = "Comment" THEN Some(pending_inline(st)) ELSE None

\* ReviewParser::new
new == Start(<<>>)

-----------------------------------------------------------------------------
(* The input lines the model feeds to the parser. *)

L_diff_f == QuotePrefix \o DiffAPrefix \o <<"f", " ", "b", "/", "f">>
L_diff_g == QuotePrefix \o DiffAPrefix \o <<"f", " ", "b", "/", "g">>
L_diff_bad == QuotePrefix \o DiffGitPrefix \o <<"x">>
L_hunk_a ==
    QuotePrefix \o HunkOpen \o <<"1", ",", "1">> \o HunkMid \o <<"1", ",", "1">>
                \o HunkClose
L_hunk_b ==
    QuotePrefix \o HunkOpen \o <<"2", ",", "1">> \o HunkMid \o <<"0", ",", "0">>
                \o HunkClose
L_hunk_zero ==
    QuotePrefix \o HunkOpen \o <<"0", ",", "0">> \o HunkMid \o <<"0", ",", "0">>
                \o HunkClose
L_minus == QuotePrefix \o <<"-", "x">>
L_plus == QuotePrefix \o <<"+", "x">>
L_context == QuotePrefix \o <<" ", "x">>
L_blank == <<>>
L_text == <<"c">>
L_approve == PrrPrefix \o Approve
L_reject == PrrPrefix \o Reject
L_comment == PrrPrefix \o CommentWord
L_unknown == PrrPrefix \o <<"x">>
L_approve_padded == <<" ">> \o PrrPrefix \o Approve \o <<" ">>
L_approve_twice == PrrPrefix \o <<" ">> \o Approve
L_prr_bare == <<"@", "p", "r", "r">>

\* the lines of the main specification
Lines ==
    {L_diff_f, L_diff_g, L_hunk_a, L_hunk_b, L_minus, L_plus, L_context,
     L_blank, L_text}

\* the lines of the specification of the directives: those fed before the
\* first diff header, and those fed after it
StartLines ==
    {L_diff_f, L_diff_bad, L_plus, L_blank, L_text, L_approve, L_reject, L_comment,
     L_unknown, L_approve_padded, L_approve_twice, L_prr_bare}

FileLines == {L_diff_f, L_hunk_a, L_plus, L_blank, L_text, L_approve, L_unknown}

DirectiveLines(st) == IF st.kind = "Start" THEN StartLines ELSE FileLines

-----------------------------------------------------------------------------
(* The inputs of the scripted runs: the scenarios of the review file       *)
(* format, each a family of inputs of the same shape.                      *)

\* longest run of equal lines in a scenario
MaxRun == 3
\* longest prose region, and longest region before the first diff header
MaxProse == 4

\* n copies of a line
Run(raw, n) == [i \in 1..n |-> raw]

\* the sequences of 1..n lines of a set
Regions(lines, n) == UNION {[1..k -> lines] : k \in 1..n}

\* a single spanned comment: a hunk at 730, a gap, m removed lines, p added
\* lines, the prose, one more added line
A_diff == QuotePrefix \o DiffAPrefix \o <<"f", "o", "o", ".", "r", "s", " ", "b", "/", "f", "o", "o", ".", "r", "s">>
A_hunk == QuotePrefix \o HunkOpen \o <<"7", "3", "0", ",", "5">> \o HunkMid \o <<"7", "3", "0", ",", "5">> \o HunkClose
A_old == QuotePrefix \o <<"-", "o", "l", "d", " ", "l", "i", "n", "e">>
A_new == QuotePrefix \o <<"+", "n", "e", "w", " ", "l", "i", "n", "e">>
A_tail == QuotePrefix \o <<"+", "t", "a", "i", "l">>
A_prose == <<"C", "o", "m", "m", "e", "n", "t", " ", "1">>
ScenarioA(m, p) ==
    <<A_diff, A_hunk, L_blank>> \o Run(A_old, m) \o Run(A_new, p)
        \o <<A_prose, A_tail>>
ScriptsA == {ScenarioA(m, p) : m \in 0..MaxRun, p \in 0..MaxRun}

\* a deleted file: the hunk -1,n +0,0, a gap of b blank lines, n removed
\* lines, the prose, and then the end of the input or the next file
E_diff == QuotePrefix \o DiffAPrefix \o <<"c", "h", "1", ".", "t", "x", "t", " ", "b", "/", "c", "h", "1", ".", "t", "x", "t">>
E_hunk(n) ==
    QuotePrefix \o HunkOpen \o <<"1", ",", Digits[n + 1]>> \o HunkMid
                \o <<"0", ",", "0">> \o HunkClose
ScenarioE(n, b, more) ==
    <<E_diff, E_hunk(n)>> \o Run(L_blank, b) \o Run(L_minus, n) \o <<A_prose>>
        \o (IF more THEN <<A_diff>> ELSE <<>>)
ScriptsE ==
    {ScenarioE(n, b, more) : n \in 1..MaxRun, b \in 1..2, more \in BOOLEAN}

\* the lines of a hunk body
BodyLines == {L_minus, L_plus, L_context}

\* two comments in one hunk: a gap, a body lines, prose, b body lines, then
\* (when gap) a second gap and c body lines, prose, and then the end of the
\* input or one more body line
ScenarioD(k1, a, k2, b, gap, k3, c, more) ==
    <<L_diff_f, L_hunk_a, L_blank>> \o Run(k1, a) \o <<A_prose>> \o Run(k2, b)
        \o (IF gap THEN <<L_blank>> \o Run(k3, c) ELSE <<>>)
        \o <<A_prose>> \o (IF more THEN <<L_plus>> ELSE <<>>)
ScriptsD ==
    {ScenarioD(k1, a, k2, b, gap, k3, c, more) :
         k1 \in BodyLines, a \in 1..MaxRun, k2 \in BodyLines, b \in 1..MaxRun,
         gap \in BOOLEAN, k3 \in BodyLines, c \in 1..MaxRun, more \in BOOLEAN}

\* the unquoted lines of a prose region: empty, of whitespace, a word, and
\* a word within whitespace
L_space == <<" ">>
L_padded == <<" ", "c", " ">>
ProseLines == {L_blank, L_space, L_text, L_padded}

\* a comment of several lines: a body line, a region of unquoted lines, and
\* then the end of the input or one more body line
ScenarioC(region, more) ==
    <<L_diff_f, L_hunk_a, L_plus>> \o region \o (IF more THEN <<L_plus>> ELSE <<>>)
ScriptsC ==
    {ScenarioC(region, more) :
         region \in Regions(ProseLines, MaxProse), more \in BOOLEAN}

\* the unquoted lines before the first diff header: directives and prose
LeadLines == {L_approve, L_reject, L_blank, L_text, L_padded}

\* a review comment with directives: a region of unquoted lines, then the
\* first diff header
ScenarioB(region) == region \o <<L_diff_f>>
ScriptsB == {ScenarioB(region) : region \in Regions(LeadLines, MaxProse)}

\* paths with and without spaces inside, and with whitespace around
P_docker == <<"D", "o", "c", "k", "e", "r", " ", "P", "r", "o", "m", "e", "t", "h", "e", "u", "s", ".", "j", "s", "o", "n">>
P_inner == <<"d", " ", "p">>
P_after == <<"d", " ", "p", " ">>
P_before == <<" ", "d">>
P_plain == <<"f">>
Paths == {P_docker, P_inner, P_after, P_before, P_plain}

\* a file whose paths hold spaces: the diff header of the two paths, a hunk,
\* an added line, the prose
G_diff(path_a, path_b) ==
    QuotePrefix \o DiffAPrefix \o path_a \o DiffBSep \o path_b
ScenarioG(path_a, path_b) == <<G_diff(path_a, path_b), L_hunk_a, L_plus, A_prose>>
ScriptsG == {ScenarioG(path_a, path_b) : path_a \in Paths, path_b \in Paths}

\* a comment after blank lines: a gap or none, a body lines, b blank lines,
\* the prose, and then the end of the input or one more body line
ScenarioF(span, k, a, b, more) ==
    <<L_diff_f, L_hunk_a>> \o (IF span THEN <<L_blank>> ELSE <<>>)
        \o Run(k, a) \o Run(L_blank, b) \o <<L_text>>
        \o (IF more THEN <<L_plus>> ELSE <<>>)
ScriptsF ==
    {ScenarioF(span, k, a, b, more) :
         span \in BOOLEAN, k \in BodyLines, a \in 1..MaxRun, b \in 0..MaxRun,
         more \in BOOLEAN}

-----------------------------------------------------------------------------
(* The history of the input, kept beside the parser and never read by it.  *)
(* It classifies each consumed line by the grammar of the review file      *)
(* alone.  A specification keeps the parts of the history named in its     *)
(* `track` set and leaves the others as they start.                        *)

\* the inputs of the scripted runs
Scripts ==
    ScriptsA \cup ScriptsE \cup ScriptsD \cup ScriptsC \cup ScriptsB \cup ScriptsG
             \cup ScriptsF

AllLines ==
    Lines \cup StartLines \cup FileLines \cup {L_diff_bad, L_hunk_zero}
          \cup UNION {{s[i] : i \in 1..Len(s)} : s \in Scripts}

\* what a line is by the grammar of the review file
Classify(raw) ==
    LET quoted == is_quoted_line(raw)
        line == payload(raw)
        header == parse_diff_header(line)
        captures == hunk_start_captures(line)
        diff == quoted /\ ~IsErr(header)
        hunk == quoted /\ IsSome(captures)
    IN  [quoted |-> quoted,
         \* a quoted diff header, and its paths
         diff |-> diff,
         paths |-> IF diff THEN Some(header.v) ELSE None,
         \* a quoted hunk header, and its starts <<lstart, rstart>>
         hunk |-> hunk,
         starts |-> IF hunk
                    THEN Some(<<parse_u64(captures.v.lstart),
                                parse_u64(captures.v.rstart)>>)
                    ELSE None,
         \* a quoted line that is neither header
         other |-> quoted /\ ~diff /\ ~hunk,
         \* which starts as a line of a hunk body does: -, + or space
         strict |-> /\ quoted /\ ~diff /\ ~hunk
                    /\ \/ starts_with(line, <<"-">>)
                       \/ starts_with(line, <<"+">>)
                       \/ starts_with(line, <<" ">>),
         \* the sides of the diff a body line lies on
         on_left |-> ~starts_with(line, <<"+">>),
         on_right |-> ~starts_with(line, <<"-">>),
         side |-> IF starts_with(line, <<"-">>) THEN "Left"
                  ELSE IF starts_with(line, <<"+">>) THEN "Right"
                  ELSE "Both",
         \* an unquoted line of whitespace only, or with something else
         blank |-> ~quoted /\ trim(raw) = <<>>,
         text |-> ~quoted /\ trim(raw) # <<>>,
         \* the word of an unquoted line whose trimmed form is "@prr <word>"
         word |-> IF ~quoted /\ starts_with(trim(raw), PrrPrefix)
                  THEN Some(from(trim(raw), Len(PrrPrefix) + 1))
                  ELSE None]

LineFacts == [raw \in AllLines |-> Classify(raw)]

\* what a quoted line is at this place of the input
QuotedKind(h, c) ==
    IF c.diff THEN "diff"
    ELSE IF c.hunk THEN "hunk"
    ELSE IF h.in_hunk THEN "body"
    ELSE "noise"

NoHistory ==
    [in_hunk |-> FALSE,     \* a hunk header came since the last diff header
     hdr |-> None,          \* paths of the most recent diff header line
     hunk |-> None,         \* starts of the most recent hunk header line
     k |-> <<0, 0>>,        \* body lines on the left / right side since it
     kinds |-> {},          \* the kinds of the comments returned so far
     tail |-> "other",      \* "gap", "span", "prose": how the input ends
     wf |-> "lead",         \* place in a review file without any prose
     line_src |-> "none",   \* kind of the line `line` was computed from
     span_src |-> "none",   \* kind of the line span_start_line was computed from
     span_crossed |-> FALSE,\* a header was consumed between the two
     q |-> 0,               \* body lines since the most recent header
     line_at |-> 0,         \* q when `line` was computed
     span_at |-> 0,         \* q when span_start_line was computed
     first |-> None,        \* location of the first body line after the gap
     last |-> None,         \* location of the most recent body line
     form |-> "none",       \* "simple", "spanned": the form of the prose region
     region |-> <<>>,       \* the unquoted lines since the last quoted line
     out |-> <<>>]          \* the comments returned so far, in order

\* the end of the input: in a blank gap, in a span that no prose closed yet,
\* in prose, or none of these
TailStep(h, c) ==
    IF c.text THEN "prose"
    ELSE IF c.blank
         THEN IF h.tail \in {"prose", "span"} THEN h.tail
              ELSE IF h.in_hunk THEN "gap" ELSE "other"
    ELSE IF c.other /\ h.in_hunk /\ h.tail \in {"gap", "span"} THEN "span"
    ELSE "other"

\* a review file of the grammar in which every unquoted line is blank:
\* blank lines, then file blocks (diff header, quoted lines, hunks of body
\* lines), then blank lines
WellFormedStep(h, c) ==
    CASE h.wf = "lead" ->
             IF c.blank THEN "lead"
             ELSE IF c.diff THEN "preamble"
             ELSE "bad"
      [] h.wf = "preamble" ->
             IF c.hunk THEN (IF c.starts.v = <<0, 0>> THEN "bad" ELSE "hunk")
             ELSE IF c.other THEN "preamble"
             ELSE "bad"
      [] h.wf = "hunk" ->
             IF c.hunk THEN (IF c.starts.v = <<0, 0>> THEN "bad" ELSE "hunk")
             ELSE IF c.diff THEN "preamble"
             ELSE IF c.strict THEN "hunk"
             ELSE IF c.blank THEN "trail"
             ELSE "bad"
      [] h.wf = "trail" -> IF c.blank THEN "trail" ELSE "bad"
      [] OTHER -> "bad"

\* the comment a call returned, if any
Emitted(result) == result.tag = "Ok" /\ IsSome(result.v)

\* the history after a parse_line call that took `raw` from state `pre` to
\* state `post` and returned `result`
GhostStep(h, pre, post, raw, result, track) ==
    LET c == LineFacts[raw]
        kind == QuotedKind(h, c)
        body == c.quoted /\ kind = "body"
        \* every quoted line that leads to FileDiff sets `line` from itself
        sets_line == c.quoted /\ post.kind = "FileDiff"
        \* and sets span_start_line too when it comes from SpanStartOrComment
        sets_span == sets_line /\ pre.kind = "SpanStartOrComment"
        open == HasFileDiff(post) /\ IsSome(post.file_diff_state.span_start_line)
        q == IF c.hunk \/ c.diff THEN 0 ELSE IF body THEN h.q + 1 ELSE h.q
        \* the location the tracker gave to the line it just consumed
        loc == IF HasFileDiff(post) THEN Some(post.file_diff_state.line) ELSE None
    IN  [in_hunk |-> IF c.hunk THEN TRUE ELSE IF c.diff THEN FALSE ELSE h.in_hunk,
         hdr |-> IF "files" \in track /\ c.diff THEN c.paths ELSE h.hdr,
         hunk |-> IF "hunk" \in track /\ c.hunk THEN c.starts ELSE h.hunk,
         k |-> IF "hunk" \notin track THEN h.k
               ELSE IF c.hunk \/ c.diff THEN <<0, 0>>
               ELSE IF body
               THEN <<h.k[1] + (IF c.on_left THEN 1 ELSE 0),
                      h.k[2] + (IF c.on_right THEN 1 ELSE 0)>>
               ELSE h.k,
         kinds |-> IF "kinds" \in track /\ Emitted(result)
                   THEN h.kinds \cup {result.v.v.kind}
                   ELSE h.kinds,
         tail |-> IF {"tail", "anchor"} \cap track # {} THEN TailStep(h, c)
                  ELSE h.tail,
         wf |-> IF "wf" \in track THEN WellFormedStep(h, c) ELSE h.wf,
         line_src |-> IF "span" \notin track THEN h.line_src
                      ELSE IF sets_line THEN kind
                      ELSE IF HasFileDiff(post) THEN h.line_src
                      ELSE "none",
         span_src |-> IF "span" \notin track THEN h.span_src
                      ELSE IF sets_span THEN kind
                      ELSE IF open THEN h.span_src
                      ELSE "none",
         span_crossed |-> IF "span" \notin track THEN h.span_crossed
                          ELSE IF sets_span THEN FALSE
                          ELSE IF open
                          THEN h.span_crossed \/ (c.quoted /\ kind \in {"diff", "hunk"})
                          ELSE FALSE,
         q |-> IF "span" \notin track THEN h.q ELSE q,
         line_at |-> IF "span" \notin track THEN h.line_at
                     ELSE IF sets_line THEN q
                     ELSE IF HasFileDiff(post) THEN h.line_at
                     ELSE 0,
         span_at |-> IF "span" \notin track THEN h.span_at
                     ELSE IF sets_span THEN q
                     ELSE IF open THEN h.span_at
                     ELSE 0,
         first |-> IF "anchor" \notin track THEN h.first
                   ELSE IF body /\ h.tail = "gap" THEN loc
                   ELSE IF c.quoted /\ ~(body /\ h.tail = "span") THEN None
                   ELSE h.first,
         last |-> IF "anchor" \notin track THEN h.last
                  ELSE IF body THEN loc
                  ELSE IF c.quoted THEN None
                  ELSE h.last,
         form |-> IF "anchor" \notin track THEN h.form
                  ELSE IF c.quoted THEN "none"
                  ELSE IF c.text /\ h.tail # "prose"
                  THEN IF h.tail = "span" THEN "spanned"
                       ELSE IF h.tail = "other" /\ IsSome(h.last) THEN "simple"
                       ELSE "none"
                  ELSE h.form,
         region |-> IF "region" \notin track THEN h.region
                    ELSE IF c.quoted THEN <<>>
                    ELSE Append(h.region, raw),
         out |-> IF "out" \in track /\ Emitted(result)
                 THEN Append(h.out, result.v.v)
                 ELSE h.out]

\* the history after the finish call
GhostFinish(h, result, track) ==
    [h EXCEPT !.kinds = IF "kinds" \in track /\ IsSome(result)
                        THEN @ \cup {result.v.kind} ELSE @,
              !.out = IF "out" \in track /\ IsSome(result)
                      THEN Append(@, result.v) ELSE @]

NoCtx == [none |-> TRUE]
NoLine == <<"\n">>
NoScript == [lines |-> <<>>, at |-> 0]
\* the build of a run whose numbers are far from the end of u64: none of
\* Builds, so that no overflow has an outcome in such a run
NoBuild == "any"

-----------------------------------------------------------------------------
(* The driver: lines are fed in order until a call fails or the input      *)
(* ends, and finish is called at the end of the input.                     *)

\* the bounds of the model on a parser state
InBounds(st) ==
    /\ st.kind \in {"Start", "Comment"} => Len(st.comment) <= MaxComment
    /\ HasFileDiff(st) =>
           /\ st.file_diff_state.left_line <= MaxLineNo
           /\ st.file_diff_state.right_line <= MaxLineNo

Init ==
    /\ state = new
    /\ phase = "parsing"
    /\ inp = NoLine
    /\ ret = Ok(None)
    /\ g = NoHistory
    /\ ctx = NoCtx
    /\ script = NoScript
    /\ build = NoBuild

\* one parse_line call: the state it leaves, what it returns, the history
Feed(raw, track) ==
    /\ LET r == parse_line(state, raw, build)
       IN  /\ state' = r.state
           /\ ret' = r.result
           /\ phase' = IF IsOk(r.result) THEN "parsing" ELSE "failed"
           /\ g' = GhostStep(g, state, r.state, raw, r.result, track)
           /\ ctx' = IF Emitted(r.result) THEN g ELSE NoCtx
    /\ inp' = raw
    /\ UNCHANGED build

\* one parse_line call of the driver loop, on any line within the bounds
ParseLine(raw, track) ==
    /\ phase = "parsing"
    /\ UNCHANGED script
    /\ InBounds(parse_line(state, raw, build).state)
    /\ Feed(raw, track)

\* one parse_line call of the driver loop, on the next line of the script
ScriptLine(track) ==
    /\ phase = "parsing"
    /\ script.at < Len(script.lines)
    /\ Feed(script.lines[script.at + 1], track)
    /\ script' = [script EXCEPT !.at = @ + 1]

\* the finish call at the end of the input
Finish(track) ==
    /\ phase = "parsing"
    /\ phase' = "finished"
    /\ ret' = Ok(finish(state))
    /\ ctx' = IF IsSome(finish(state)) THEN g ELSE NoCtx
    /\ g' = GhostFinish(g, finish(state), track)
    /\ inp' = NoLine
    /\ UNCHANGED <<state, script, build>>

\* the finish call after the last line of the script
ScriptFinish(track) ==
    /\ script.at = Len(script.lines)
    /\ Finish(track)

\* the parser fed any lines of Lines
Next ==
    \/ \E raw \in Lines : ParseLine(raw, {"tail", "span"})
    \/ Finish({"tail", "span"})

Spec == Init /\ [][Next]_vars

\* the same, with the history of the diff headers
NextFiles ==
    \/ \E raw \in Lines : ParseLine(raw, {"files"})
    \/ Finish({"files"})

SpecFiles == Init /\ [][NextFiles]_vars

\* the same, with the history of the hunk headers and of the body lines
NextHunk ==
    \/ \E raw \in Lines : ParseLine(raw, {"hunk"})
    \/ Finish({"hunk"})

SpecHunk == Init /\ [][NextHunk]_vars

\* the parser fed the lines of the directives before the first diff header
\* and a few lines of a file after it, with the history of the comments
\* returned
NextDirective ==
    \/ \E raw \in DirectiveLines(state) : ParseLine(raw, {"kinds"})
    \/ Finish({"kinds"})

SpecDirective == Init /\ [][NextDirective]_vars

\* the parser fed any lines, with the place in a review file without prose
NextWellFormed ==
    \/ \E raw \in Lines \cup {L_hunk_zero, L_diff_bad} : ParseLine(raw, {"wf"})
    \/ Finish({"wf"})

SpecWellFormed == Init /\ [][NextWellFormed]_vars

\* the parser fed any lines, with the history of the anchors of the comments
NextAnchor ==
    \/ \E raw \in Lines : ParseLine(raw, {"anchor"})
    \/ Finish({"anchor"})

SpecAnchor == Init /\ [][NextAnchor]_vars

\* the scripted runs: the parser fed one of the inputs of Scripts, line by
\* line, with the comments returned and the history of the prose
InitScript ==
    /\ state = new
    /\ phase = "parsing"
    /\ inp = NoLine
    /\ ret = Ok(None)
    /\ g = NoHistory
    /\ ctx = NoCtx
    /\ script \in [lines : Scripts, at : {0}]
    /\ build = NoBuild

NextScript ==
    \/ ScriptLine({"out", "region", "anchor"})
    \/ ScriptFinish({"out", "region", "anchor"})

SpecScript == InitScript /\ [][NextScript]_vars

-----------------------------------------------------------------------------
(* What the claims speak of. *)

\* the last call returned a comment of this kind
EmittedKind(kind) == Emitted(ret) /\ ret.v.v.kind = kind

\* the comment the last call returned
Returned == ret.v.v

\* a step that is a parse_line call
CallStep == phase = "parsing" /\ phase' # "finished"

\* n, or 0 when n is negative
AtLeastZero(n) == IF n >= 0 THEN n ELSE 0

-----------------------------------------------------------------------------
(* C1 *)

\* C1: every Inline comment returned by parse_line or finish carries the
\* paths (old_file, new_file) of the most recent quoted diff header line
\* that precedes its prose in the input.
C1_InlineCarriesLastDiffHeader ==
    EmittedKind("Inline") =>
        ctx.hdr = Some([old |-> Returned.old_file, new |-> Returned.new_file])

-----------------------------------------------------------------------------
(* C2 *)

\* C2: in every Inline comment returned, the number of `line` on the side of
\* its tag (l for Left, r for Right, both for Both) is hunk_start - 1 + k:
\* hunk_start the start on that side of the most recent hunk header before
\* the comment, k the number of body lines on that side since that header.
\* A side whose start is 0 counts from 0.
C2_InlineLineCountsFromHunkStart ==
    EmittedKind("Inline") =>
        /\ IsSome(ctx.hunk)
        /\ Returned.line.tag \in {"Left", "Both"} =>
               Returned.line.l = AtLeastZero(ctx.hunk.v[1] - 1) + ctx.k[1]
        /\ Returned.line.tag \in {"Right", "Both"} =>
               Returned.line.r = AtLeastZero(ctx.hunk.v[2] - 1) + ctx.k[2]

-----------------------------------------------------------------------------
(* C3 *)

\* C3, as claimed: at most one Review comment is returned, and it is the
\* first comment of the output: no ReviewAction, no Inline and no Review is
\* returned before it.
C3_ReviewIsFirstToken == EmittedKind("Review") => ctx.kinds = {}

\* C3, amended: at most one Review comment is returned, and no Inline and no
\* Review is returned before it; the ReviewAction of a directive that
\* precedes the first diff header may be returned before it.
C3_ReviewOnceAndBeforeInline ==
    EmittedKind("Review") => ctx.kinds \subseteq {"ReviewAction"}

\* a Review returned after a ReviewAction
C3_Witness == EmittedKind("Review") /\ ctx.kinds = {"ReviewAction"}

-----------------------------------------------------------------------------
(* C4 *)

\* C4: the start_line of every Inline comment returned was computed from a
\* body line of the same hunk as `line` (no header between the two), and
\* that line is not after the line `line` was computed from.
C4_SpanStartFromBodyOfSameHunk ==
    (EmittedKind("Inline") /\ IsSome(Returned.start_line)) =>
        /\ ctx.span_src = "body"
        /\ ctx.line_src = "body"
        /\ ~ctx.span_crossed
        /\ ctx.span_at <= ctx.line_at

-----------------------------------------------------------------------------
(* C5 *)

\* C5: when the input ends in an open span (a blank gap, then body lines,
\* and no prose), the calls of parse_line followed by finish report an
\* error.
C5_OpenSpanAtEndOfInputFails ==
    (phase = "finished" /\ g.tail = "span") => IsErr(ret)

-----------------------------------------------------------------------------
(* C6 *)

\* what C6 says of one parse_line call in FileDiff on a diff header or on a
\* hunk header with a start that is not zero
C6_Step ==
    LET c == LineFacts[inp']
        fds == state.file_diff_state
    IN  (/\ CallStep
         /\ state.kind = "FileDiff"
         /\ c.diff \/ (c.hunk /\ c.starts.v # <<0, 0>>)) =>
            IF IsSome(fds.span_start_line)
            THEN /\ ret' = Err(IF c.diff THEN "UnterminatedSpan" ELSE "CrossChunkSpan")
                 /\ state' = state
            ELSE IF c.diff
            THEN /\ ret' = Ok(None)
                 /\ state' = FilePreamble(c.paths.v.old, c.paths.v.new)
            ELSE /\ ret' = Ok(None)
                 /\ state' = FileDiff(FileDiffState(
                        fds.old_file, fds.new_file,
                        AtLeastZero(c.starts.v[1] - 1),
                        AtLeastZero(c.starts.v[2] - 1),
                        Both(AtLeastZero(c.starts.v[1] - 1),
                             AtLeastZero(c.starts.v[2] - 1)),
                        None))

\* C6: in FileDiff with span_start_line set, parse_line fails on a quoted
\* diff header (unterminated span) and on a quoted hunk header (cross-hunk
\* span), returns no comment and keeps the state; with span_start_line unset
\* the diff header leads to FilePreamble with the paths of the header, and
\* the hunk header resets the position and `line` and stays in FileDiff.
C6_FileDiffOnHeaders == [][C6_Step]_vars

\* a hunk header was refused because a span was open
C6_Witness ==
    /\ ret = Err("CrossChunkSpan")
    /\ state.kind = "FileDiff"
    /\ IsSome(state.file_diff_state.span_start_line)
    /\ LineFacts[inp].hunk

-----------------------------------------------------------------------------
(* C7 *)

\* what C7 says of one parse_line call in SpanStartOrComment on a quoted line
C7_Step ==
    LET c == LineFacts[inp']
        fds == state.file_diff_state
        left == fds.left_line + (IF c.on_left THEN 1 ELSE 0)
        right == fds.right_line + (IF c.on_right THEN 1 ELSE 0)
        loc == [tag |-> c.side, l |-> left, r |-> right]
    IN  (CallStep /\ state.kind = "SpanStartOrComment" /\ c.quoted) =>
            IF IsSome(fds.span_start_line)
            THEN /\ ret' = Err("UnterminatedSpan")
                 /\ state' = state
            ELSE /\ ret' = Ok(None)
                 /\ state' = FileDiff(FileDiffState(fds.old_file, fds.new_file,
                                                    left, right, loc, Some(loc)))

\* C7: on a quoted line after a blank gap, parse_line fails with the
\* unterminated span error when a span is already open; when none is open
\* the tracker consumes the line, its location becomes both `line` and
\* span_start_line, and the state becomes FileDiff.
C7_SecondSpanFails == [][C7_Step]_vars

\* a second span candidate was refused while the first span was open
C7_Witness ==
    /\ ret = Err("UnterminatedSpan")
    /\ state.kind = "SpanStartOrComment"
    /\ IsSome(state.file_diff_state.span_start_line)
    /\ LineFacts[inp].quoted

-----------------------------------------------------------------------------
(* C8 *)

\* what C8 says of one parse_line call in FilePreamble on an unquoted line
C8_Step ==
    (CallStep /\ state.kind = "FilePreamble" /\ ~LineFacts[inp'].quoted) =>
        /\ ret' = Err("UnexpectedCommentInPreamble")
        /\ state' = state

\* C8: in FilePreamble parse_line fails on every unquoted line, blank or
\* not, with the unexpected comment error, and returns no comment.
C8_UnquotedInPreambleFails == [][C8_Step]_vars

\* a blank line was refused in the preamble
C8_Witness ==
    /\ ret = Err("UnexpectedCommentInPreamble")
    /\ state.kind = "FilePreamble"
    /\ LineFacts[inp].blank

-----------------------------------------------------------------------------
(* C9 *)

\* what C9 says of one parse_line call in Start on an unquoted line whose
\* trimmed form is "@prr " and a word
C9_Step ==
    LET c == LineFacts[inp']
    IN  (CallStep /\ state.kind = "Start" /\ IsSome(c.word)) =>
            ret' = IF c.word.v = Approve THEN Ok(Some(ReviewAction("Approve")))
                   ELSE IF c.word.v = Reject
                   THEN Ok(Some(ReviewAction("RequestChanges")))
                   ELSE IF c.word.v = CommentWord
                   THEN Ok(Some(ReviewAction("Comment")))
                   ELSE Err("UnknownDirective")

\* C9: in Start, an unquoted line whose trimmed form is "@prr approve",
\* "@prr reject" or "@prr comment" returns ReviewAction(Approve),
\* ReviewAction(RequestChanges) or ReviewAction(Comment); with any other
\* word after "@prr " parse_line fails with the unknown directive error.
C9_Directives == [][C9_Step]_vars

\* the padded directive line was taken as the approval
C9_Witness ==
    /\ ret = Ok(Some(ReviewAction("Approve")))
    /\ inp = L_approve_padded
    /\ state.kind = "Start"

-----------------------------------------------------------------------------
(* C10 *)

\* C10: for a review file of the grammar in which every unquoted line is
\* blank (blank lines, then file blocks of quoted lines, then blank lines),
\* no parse_line call returns a comment or an error, and finish returns no
\* comment.
C10_NoProseNoCommentNoError == g.wf # "bad" => ret = Ok(None)

\* such a file was read to its end through a hunk and a trailing blank line
C10_Witness ==
    /\ phase = "finished"
    /\ g.wf = "trail"
    /\ state.kind = "SpanStartOrComment"
    /\ state.file_diff_state.left_line + state.file_diff_state.right_line >= 2

-----------------------------------------------------------------------------
(* C11 *)

\* C11: the Inline comment of a spanned comment (a gap of unquoted blank
\* lines, then quoted body lines, then prose, within one hunk) has for
\* start_line the location the tracker gave to the first body line after
\* the gap, and for line the location it gave to the body line just before
\* the prose.
C11_SpannedCommentAnchors ==
    (EmittedKind("Inline") /\ ctx.form = "spanned") =>
        /\ IsSome(ctx.first)
        /\ Returned.start_line = ctx.first
        /\ Some(Returned.line) = ctx.last

\* a spanned comment over more than one body line was returned
C11_Witness ==
    /\ EmittedKind("Inline")
    /\ ctx.form = "spanned"
    /\ IsSome(Returned.start_line)
    /\ Returned.start_line.v # Returned.line

-----------------------------------------------------------------------------
(* C14 *)

\* C14: the Inline comment of a simple comment (prose directly after a
\* quoted body line, with no blank gap since the hunk header or since the
\* end of the previous comment) has for line the location the tracker gave
\* to that body line, and no start_line.
C14_SimpleCommentAnchors ==
    (EmittedKind("Inline") /\ ctx.form = "simple") =>
        /\ Returned.start_line = None
        /\ Some(Returned.line) = ctx.last

-----------------------------------------------------------------------------
(* C12 *)

\* the comments returned over the whole input, once finish has been called
Output == g.out

\* the single spanned comment of the scenario: two removed lines, three
\* added lines
C12_Input == phase = "finished" /\ script.lines = ScenarioA(2, 3)

\* C12, as claimed: the output of the scenario is one Inline comment on
\* foo.rs whose line is Right with right number 732, whose start_line is
\* Some(Right) with number 730 and whose text is "Comment 1".
C12_SpanStartsOnRight ==
    C12_Input =>
        /\ Len(Output) = 1
        /\ Output[1].kind = "Inline"
        /\ Output[1].old_file = <<"f", "o", "o", ".", "r", "s">>
        /\ Output[1].new_file = <<"f", "o", "o", ".", "r", "s">>
        /\ Output[1].line.tag = "Right"
        /\ Output[1].line.r = 732
        /\ IsSome(Output[1].start_line)
        /\ Output[1].start_line.v.tag = "Right"
        /\ Output[1].start_line.v.r = 730
        /\ Output[1].comment = A_prose

\* C12, amended: the output of the scenario is one Inline comment on foo.rs
\* whose line is Right(731, 732), whose start_line is Some(Left(730, 729)),
\* the location of the first removed line after the gap, and whose text is
\* "Comment 1".
C12_SpanStartsOnLeft ==
    C12_Input =>
        Output = <<Inline(<<"f", "o", "o", ".", "r", "s">>, <<"f", "o", "o", ".", "r", "s">>, Right(731, 732),
                          Some(Left(730, 729)), A_prose)>>

\* the scenario was read to its end and returned one comment
C12_Witness == C12_Input /\ Len(Output) = 1 /\ ret = Ok(None)

-----------------------------------------------------------------------------
(* C13 *)

\* the number of removed lines of a deleted file scenario
RemovedLines == Cardinality({i \in 1..Len(script.lines) : script.lines[i] = L_minus})

\* C13: in a deleted file (hunk -1,N +0,0, a blank gap, N removed lines,
\* then prose) the right number is 0 on every line of the hunk, and the one
\* Inline comment returned has line = Left(N, 0) and start_line =
\* Some(Left(1, 0)).
C13_DeletedFile ==
    script.lines \in ScriptsE =>
        /\ HasFileDiff(state) =>
               /\ state.file_diff_state.right_line = 0
               /\ state.file_diff_state.line.r = 0
        /\ EmittedKind("Inline") =>
               /\ Returned.line = Left(RemovedLines, 0)
               /\ Returned.start_line = Some(Left(1, 0))
        /\ phase = "finished" => (Len(Output) = 1 /\ Output[1].kind = "Inline")
        /\ ~IsErr(ret)

\* the comment of a deleted file of more than one line was returned by finish
C13_Witness ==
    /\ script.lines \in ScriptsE
    /\ phase = "finished"
    /\ EmittedKind("Inline")
    /\ RemovedLines >= 2
    /\ Returned.line = Left(RemovedLines, 0)

-----------------------------------------------------------------------------
(* C15 *)

\* the place of a location in the order of the body lines of a hunk: every
\* body line adds one to the left number, to the right number or to both
Place(loc) == loc.l + loc.r

\* the input has the second gap
HasSecondGap ==
    Cardinality({i \in 1..Len(script.lines) : script.lines[i] = L_blank}) = 2

\* C15: two comments in one hunk, the first one spanned, separated by quoted
\* body lines only: no call fails and two Inline comments are returned.
\* When the second one is spanned too (a new gap before its body lines), the
\* ranges [start_line, line] of the two do not meet; when no new gap
\* precedes it, the second one has no start_line.
C15_BackToBackSpans ==
    script.lines \in ScriptsD =>
        /\ ~IsErr(ret)
        /\ phase = "finished" =>
               /\ Len(Output) = 2
               /\ Output[1].kind = "Inline" /\ Output[2].kind = "Inline"
               /\ IsSome(Output[1].start_line)
               /\ Place(Output[1].start_line.v) <= Place(Output[1].line)
               /\ IF HasSecondGap
                  THEN /\ IsSome(Output[2].start_line)
                       /\ Place(Output[1].line) < Place(Output[2].start_line.v)
                       /\ Place(Output[2].start_line.v) <= Place(Output[2].line)
                  ELSE /\ Output[2].start_line = None
                       /\ Place(Output[1].line) < Place(Output[2].line)

\* two spanned comments of one hunk were returned
C15_Witness ==
    /\ script.lines \in ScriptsD
    /\ phase = "finished"
    /\ HasSecondGap
    /\ Len(Output) = 2
    /\ IsSome(Output[2].start_line)
    /\ Output[2].start_line.v # Output[2].line

-----------------------------------------------------------------------------
(* C16 *)

\* the places of the lines of a region that are not blank
NonBlank(region) == {i \in 1..Len(region) : trim(region[i]) # <<>>}

\* the text of a prose region: its lines from the first one that is not
\* blank to the last one that is not blank, that last line without its
\* trailing whitespace, joined with newlines
TextOf(region) ==
    LET first == CHOOSE i \in NonBlank(region) : \A j \in NonBlank(region) : i <= j
        last == CHOOSE i \in NonBlank(region) : \A j \in NonBlank(region) : j <= i
    IN  join([i \in 1..(last - first + 1) |->
                 IF i = last - first + 1
                 THEN trim_end(region[last])
                 ELSE region[first + i - 1]])

\* C16: the text of an Inline comment returned is made of the unquoted lines
\* of its prose region from the first one that is not blank onward, in
\* order, joined with newlines, without the trailing whitespace and the
\* trailing blank lines; the blank lines within are kept and the blank lines
\* before the first line that is not blank are left out.
C16_CommentText ==
    EmittedKind("Inline") =>
        /\ NonBlank(ctx.region) # {}
        /\ Returned.comment = TextOf(ctx.region)

\* a comment with a blank line within, after a blank line, whose last line
\* ends in whitespace
C16_Witness ==
    /\ EmittedKind("Inline")
    /\ Len(ctx.region) >= 4
    /\ trim(ctx.region[1]) = <<>>
    /\ trim_end(ctx.region[Len(ctx.region)]) # ctx.region[Len(ctx.region)]
    /\ \E i \in NonBlank(ctx.region) : \E j \in NonBlank(ctx.region) : j >= i + 2

-----------------------------------------------------------------------------
(* C17 *)

\* what C17 says of the finish call
C17_Step ==
    (phase = "parsing" /\ phase' = "finished") =>
        /\ ~IsErr(ret')
        /\ IsSome(ret'.v) <=> state.kind = "Comment"
        /\ state.kind = "Comment" =>
               /\ ret'.v.v.kind = "Inline"
               /\ \A raw \in BodyLines : ret' = parse_line(state, raw, build).result

\* C17: finish returns a comment exactly when the parser is in the Comment
\* state, and that comment is the Inline comment (files, line, start_line,
\* text) that parse_line would have returned on a quoted body line; in every
\* other state finish returns no comment, and it never fails.
C17_FinishReturnsPending == [][C17_Step]_vars

\* finish returned a spanned comment
C17_Witness ==
    /\ phase = "finished"
    /\ state.kind = "Comment"
    /\ EmittedKind("Inline")
    /\ IsSome(Returned.start_line)

-----------------------------------------------------------------------------
(* C18 *)

\* the ReviewAction of a directive word
ActionOf(word) ==
    CASE word = Approve -> ReviewAction("Approve")
      [] word = Reject -> ReviewAction("RequestChanges")
      [] word = CommentWord -> ReviewAction("Comment")

\* the lines before the first diff header of an input
LeadOf(lines) == SubSeq(lines, 1, Len(lines) - 1)

\* the directive lines of a region, and its other lines
IsDirectiveLine(raw) == IsSome(LineFacts[raw].word)
IsProseLine(raw) == ~IsDirectiveLine(raw)

\* the output of a region of directives and prose closed by a diff header:
\* the action of every directive in order, then the review comment made of
\* the other lines from the first one that is not blank, trimmed
LeadOutput(region) ==
    LET directives == SelectSeq(region, IsDirectiveLine)
        prose == SelectSeq(region, IsProseLine)
        actions == [i \in 1..Len(directives) |->
                       ActionOf(LineFacts[directives[i]].word.v)]
    IN  IF NonBlank(prose) = {}
        THEN actions
        ELSE LET first == CHOOSE i \in NonBlank(prose) :
                              \A j \in NonBlank(prose) : i <= j
             IN  Append(actions,
                        Review(trim(join(SubSeq(prose, first, Len(prose))))))

\* what C18 says of one call
C18_Step ==
    LET c == LineFacts[inp']
    IN  /\ (/\ CallStep
            /\ state.kind = "Start"
            /\ IsSome(c.word)
            /\ c.word.v \in {Approve, Reject, CommentWord}) =>
               /\ ret' = Ok(Some(ActionOf(c.word.v)))
               /\ state' = state
        /\ (CallStep /\ state.kind = "Start" /\ c.quoted /\ ~IsErr(ret')
                     /\ script.lines \in ScriptsB) =>
               g'.out = LeadOutput(LeadOf(script.lines))

\* C18: a directive line before the first diff header returns its
\* ReviewAction on the call that consumes it and leaves the parser in Start
\* with the prose as it was; the Review comment of the prose before and
\* after the directive is returned at the first diff header, so that the
\* output of `@prr approve`, prose, diff header is ReviewAction(Approve)
\* and then Review(prose trimmed).
C18_DirectiveThenReview == [][C18_Step]_vars

\* the output of `@prr approve`, prose, diff header
C18_Witness ==
    /\ script.lines = ScenarioB(<<L_approve, L_padded>>)
    /\ state.kind = "FilePreamble"
    /\ Output = <<ReviewAction("Approve"), Review(L_text)>>

-----------------------------------------------------------------------------
(* C19 *)

-----------------------------------------------------------------------------
(* C20 *)

\* what C20 says of one parse_line call in FileDiff on a quoted line that is
\* no header
C20_Step ==
    LET c == LineFacts[inp']
        fds == state.file_diff_state
        left == fds.left_line
        right == fds.right_line
    IN  (/\ CallStep
         /\ state.kind = "FileDiff"
         /\ c.other
         /\ ~is_diff_header(payload(inp'))) =>
            /\ ret' = Ok(None)
            /\ state'.kind = "FileDiff"
            /\ state'.file_diff_state =
                   CASE c.side = "Left" ->
                            [fds EXCEPT !.left_line = left + 1,
                                        !.line = Left(left + 1, right)]
                     [] c.side = "Right" ->
                            [fds EXCEPT !.right_line = right + 1,
                                        !.line = Right(left, right + 1)]
                     [] c.side = "Both" ->
                            [fds EXCEPT !.left_line = left + 1,
                                        !.right_line = right + 1,
                                        !.line = Both(left + 1, right + 1)]

\* C20: from the position (left, right), a quoted body line starting with
\* `-` gives the position (left+1, right) and the tag Left(left+1, right),
\* one starting with `+` gives (left, right+1) and Right(left, right+1), any
\* other body line gives (left+1, right+1) and Both(left+1, right+1); the
\* `line` of the FileDiff state after the step is that tag.
C20_TrackerStep == [][C20_Step]_vars

\* a context line was counted on both sides
C20_Witness ==
    /\ state.kind = "FileDiff"
    /\ inp = L_context
    /\ ret = Ok(None)
    /\ state.file_diff_state.line = Both(2, 1)
    /\ state.file_diff_state.span_start_line = None

-----------------------------------------------------------------------------
(* C21 *)

\* what C21 says of one parse_line call on a quoted hunk header, with a
\* start that is not zero, in FilePreamble or in FileDiff without open span
C21_Step ==
    LET c == LineFacts[inp']
        open == state.kind = "FileDiff"
                    /\ IsSome(state.file_diff_state.span_start_line)
        files == IF state.kind = "FilePreamble" THEN state
                 ELSE state.file_diff_state
        left == AtLeastZero(c.starts.v[1] - 1)
        right == AtLeastZero(c.starts.v[2] - 1)
    IN  (/\ CallStep
         /\ state.kind \in {"FilePreamble", "FileDiff"}
         /\ ~open
         /\ c.hunk
         /\ c.starts.v # <<0, 0>>) =>
            /\ ret' = Ok(None)
            /\ state' = FileDiff(FileDiffState(files.old_file, files.new_file,
                                               left, right, Both(left, right),
                                               None))

\* C21: a quoted hunk header with the starts (lstart, rstart), consumed in
\* FilePreamble or in FileDiff without open span, gives the position
\* (max(lstart-1, 0), max(rstart-1, 0)), `line` = Both of that position,
\* no span_start_line and the state FileDiff; no number goes below zero.
C21_HunkHeaderPosition == [][C21_Step]_vars

\* the hunk -2,1 +0,0 was entered from the preamble at (1, 0)
C21_Witness ==
    /\ inp = L_hunk_b
    /\ ret = Ok(None)
    /\ state.kind = "FileDiff"
    /\ state.file_diff_state.left_line = 1
    /\ state.file_diff_state.right_line = 0
    /\ state.file_diff_state.line = Both(1, 0)

-----------------------------------------------------------------------------
(* parse_hunk_start as a function of the two starts of a header, over
   starts from both ends of u64 and under both builds. *)

\* the starts a header is drawn with: zero in two spellings, small numbers,
\* 2^63 - 1, 2^63, u64::MAX, and u64::MAX + 1
StartTexts ==
    {<<"0">>, <<"0", "0">>, <<"1">>, <<"2">>, <<"7", "3", "0">>,
     <<"9", "2", "2", "3", "3", "7", "2", "0", "3", "6", "8", "5", "4", "7", "7", "5", "8", "0", "7">>, <<"9", "2", "2", "3", "3", "7", "2", "0", "3", "6", "8", "5", "4", "7", "7", "5", "8", "0", "8">>,
     <<"1", "8", "4", "4", "6", "7", "4", "4", "0", "7", "3", "7", "0", "9", "5", "5", "1", "6", "1", "5">>, <<"1", "8", "4", "4", "6", "7", "4", "4", "0", "7", "3", "7", "0", "9", "5", "5", "1", "6", "1", "6">>}

\* the hunk header with these starts
HunkHeader(lstart, rstart) ==
    HunkOpen \o lstart \o <<",", "1">> \o HunkMid \o rstart \o <<",", "1">>
             \o HunkClose

InitHunkStart ==
    /\ state = new
    /\ phase = "drawn"
    /\ inp \in {HunkHeader(l, r) : l \in StartTexts, r \in StartTexts}
    /\ ret = Ok(None)
    /\ g = NoHistory
    /\ ctx = NoCtx
    /\ script = NoScript
    /\ build \in Builds

\* one call of parse_hunk_start on the header drawn
ApplyHunkStart ==
    /\ phase = "drawn"
    /\ ret' = parse_hunk_start(inp, build)
    /\ phase' = "applied"
    /\ UNCHANGED <<state, inp, g, ctx, script, build>>

NextHunkStart == ApplyHunkStart
SpecHunkStart == InitHunkStart /\ [][NextHunkStart]_vars

\* C22: for all starts lstart and rstart that are u64 values, parse_hunk_start
\* fails exactly when both are 0 and returns (lstart, rstart) otherwise,
\* however large they are: the sum used for the test neither wraps nor aborts
C22_FailsExactlyWhenBothZero ==
    LET starts == hunk_start_captures(inp).v
        lstart == starts.lstart
        rstart == starts.rstart
    IN  (phase = "applied" /\ fits_u64(lstart) /\ fits_u64(rstart)) =>
            ret = IF dec_strip(lstart) = <<"0">> /\ dec_strip(rstart) = <<"0">>
                  THEN Err("BothHunksZero")
                  ELSE Ok(Some(<<u64_of(lstart), u64_of(rstart)>>))

\* the same for starts whose sum is a u64: what the code does keep
C22_FailsExactlyWhenBothZeroInRange ==
    LET starts == hunk_start_captures(inp).v
        lstart == starts.lstart
        rstart == starts.rstart
    IN  (phase = "applied" /\ fits_u64(dec_add(lstart, rstart))) =>
            ret = IF dec_strip(lstart) = <<"0">> /\ dec_strip(rstart) = <<"0">>
                  THEN Err("BothHunksZero")
                  ELSE Ok(Some(<<u64_of(lstart), u64_of(rstart)>>))

\* two starts of 2^63 under each build: the sum wraps to 0, or aborts
C22_WrapsToZero ==
    /\ phase = "applied" /\ build = "wrapping"
    /\ inp = HunkHeader(<<"9", "2", "2", "3", "3", "7", "2", "0", "3", "6", "8", "5", "4", "7", "7", "5", "8", "0", "8">>, <<"9", "2", "2", "3", "3", "7", "2", "0", "3", "6", "8", "5", "4", "7", "7", "5", "8", "0", "8">>)
    /\ ret = Err("BothHunksZero")
C22_Aborts ==
    /\ phase = "applied" /\ build = "overflow-checks"
    /\ inp = HunkHeader(<<"9", "2", "2", "3", "3", "7", "2", "0", "3", "6", "8", "5", "4", "7", "7", "5", "8", "0", "8">>, <<"9", "2", "2", "3", "3", "7", "2", "0", "3", "6", "8", "5", "4", "7", "7", "5", "8", "0", "8">>)
    /\ ret = Panic("AddOverflow")

-----------------------------------------------------------------------------
(* C23 *)

\* the lines of the input fed so far
Fed == SubSeq(script.lines, 1, script.at)

\* the prose lines kept of a run of unquoted lines: the lines that are no
\* directive, from the first one that is not blank onward
KeptProse(lines) ==
    LET prose == SelectSeq(lines, IsProseLine)
    IN  IF NonBlank(prose) = {}
        THEN <<>>
        ELSE LET first == CHOOSE i \in NonBlank(prose) :
                              \A j \in NonBlank(prose) : i <= j
             IN  SubSeq(prose, first, Len(prose))

\* what C23 says of one call
C23_Step ==
    LET c == LineFacts[inp']
        kept == KeptProse(Fed)
        text == trim(join(kept))
    IN  /\ (state.kind = "Start" /\ phase = "parsing") => state.comment = kept
        /\ (CallStep /\ state.kind = "Start" /\ c.diff) =>
               /\ ret' = Ok(IF kept # <<>> THEN Some(Review(text)) ELSE None)
               /\ kept # <<>> => text # <<>>
               /\ state' = FilePreamble(c.paths.v.old, c.paths.v.new)

\* C23: in the Start state the blank lines before the first line of prose
\* are dropped and every unquoted line that is no directive is kept verbatim
\* from that line onward; the first quoted diff header returns a Review
\* comment exactly when some prose line that is not blank was seen, with the
\* kept lines joined by newlines and trimmed as its text, never empty, and
\* moves the parser to FilePreamble with the paths of the header.
C23_ReviewFromStart == [][C23_Step]_vars

\* a review comment after a blank line, with a directive within, returned at
\* the diff header
C23_Witness ==
    /\ script.lines = ScenarioB(<<L_blank, L_padded, L_approve, L_text>>)
    /\ state = FilePreamble(<<"f">>, <<"f">>)
    /\ ret = Ok(Some(Review(L_text \o <<" ", "\n">> \o L_text)))

-----------------------------------------------------------------------------
(* C24 *)

\* what C24 says of one call
C24_Step ==
    (/\ CallStep /\ state.kind = "Start"
     /\ is_quoted_line(inp') /\ ~is_diff_header(payload(inp'))) =>
        /\ ret' = Err("ExpectedDiffHeader")
        /\ state' = state

\* C24: in the Start state a quoted line that is no diff header fails with
\* the error of the expected diff header, returns no comment, not even the
\* Review of the prose kept so far, and leaves the parser in Start.
C24_QuotedInStartFails == [][C24_Step]_vars

\* a hunk header met in Start after a line of prose
C24_Witness ==
    /\ phase = "failed" /\ inp = L_hunk_a
    /\ ret = Err("ExpectedDiffHeader")
    /\ state = Start(<<L_text>>)

-----------------------------------------------------------------------------
(* C26 *)

\* what C26 says of one call
C26_Step ==
    (/\ CallStep /\ state.kind = "FilePreamble"
     /\ is_quoted_line(inp') /\ ~LineFacts[inp'].hunk) =>
        /\ ret' = Ok(None)
        /\ state' = state

\* C26: in the FilePreamble state a quoted line that is no hunk header
\* returns no comment and no error and leaves the state FilePreamble with
\* old_file and new_file as they were.
C26_PreamblePassesOver == [][C26_Step]_vars

\* the diff header of another file met in the preamble of the file f
C26_Witness ==
    /\ phase = "parsing" /\ inp = L_diff_g
    /\ ret = Ok(None)
    /\ state = FilePreamble(<<"f">>, <<"f">>)

-----------------------------------------------------------------------------
(* C25 *)

\* what C25 says of one call
C25_Step ==
    LET c == LineFacts[inp']
        saved == state.file_diff_state
        step == get_next_lines(payload(inp'), saved.left_line, saved.right_line)
        position == IF c.hunk
                    THEN <<AtLeastZero(c.starts.v[1] - 1),
                           AtLeastZero(c.starts.v[2] - 1)>>
                    ELSE step
    IN  (CallStep /\ state.kind = "Comment" /\ c.quoted /\ ~IsErr(ret')) =>
            /\ ret' = Ok(Some(pending_inline(state)))
            /\ IF c.diff
               THEN state' = FilePreamble(c.paths.v.old, c.paths.v.new)
               ELSE /\ state'.kind = "FileDiff"
                    /\ state'.file_diff_state.old_file = saved.old_file
                    /\ state'.file_diff_state.new_file = saved.new_file
                    /\ state'.file_diff_state.span_start_line = None
                    /\ state'.file_diff_state.left_line = position[1]
                    /\ state'.file_diff_state.right_line = position[2]

\* C25: in the Comment state a quoted line returns the pending Inline comment
\* and is then taken as what it is: a diff header moves to FilePreamble with
\* its paths; a hunk header moves to FileDiff at (lstart-1, rstart-1) and a
\* body line to FileDiff one tracker step further, both with no span open.
C25_QuotedLineEndsComment == [][C25_Step]_vars

\* the same without the hunk headers: what the code does keep
C25_Step_NoHunkHeader ==
    (CallStep /\ state.kind = "Comment" /\ LineFacts[inp'].hunk) \/ C25_Step
C25_QuotedLineEndsComment_NoHunkHeader == [][C25_Step_NoHunkHeader]_vars

-----------------------------------------------------------------------------
(* C27 *)

\* what C27 says of one call
C27_Step ==
    /\ (CallStep /\ state.kind # "Start") =>
           /\ ~(Emitted(ret') /\ ret'.v.v.kind = "ReviewAction")
           /\ ret' # Err("UnknownDirective")
    /\ (/\ CallStep /\ IsDirectiveLine(inp')
        /\ state.kind \in {"FileDiff", "SpanStartOrComment", "Comment"}) =>
           /\ ret' = Ok(None)
           /\ state'.kind = "Comment"
           /\ state'.file_diff_state = state.file_diff_state
           /\ state'.comment =
                  (IF state.kind = "Comment" THEN state.comment ELSE <<>>)
                      \o <<inp'>>
    /\ (CallStep /\ state.kind = "Comment" /\ Emitted(ret')) =>
           /\ ret'.v.v.kind = "Inline"
           /\ ret'.v.v.comment = trim_end(join(state.comment))

\* C27: a directive line acts only in the Start state: after the first diff
\* header no call returns a ReviewAction or the error of an unknown
\* directive, and an unquoted `@prr ...` line met in FileDiff,
\* SpanStartOrComment or Comment is a line of prose of the comment, which is
\* the text of the Inline comment returned.
C27_DirectivesOnlyInStart == [][C27_Step]_vars

\* an Inline comment whose text is a known directive followed by an unknown
\* one
C27_Witness ==
    /\ EmittedKind("Inline")
    /\ Returned.comment = L_approve \o <<"\n">> \o L_unknown

-----------------------------------------------------------------------------
(* C28 *)

\* the location of the n-th line of a run of equal body lines that follows
\* the hunk header -1,1 +1,1
RunLocation(k, n) ==
    CASE LineFacts[k].side = "Left" -> Left(n, 0)
      [] LineFacts[k].side = "Right" -> Right(0, n)
      [] LineFacts[k].side = "Both" -> Both(n, n)

\* what C28 says of one call
C28_Step ==
    LET c == LineFacts[inp']
    IN  /\ (CallStep /\ state.kind = "SpanStartOrComment" /\ c.blank) =>
               /\ ret' = Ok(None)
               /\ state' = state
        /\ (CallStep /\ state.kind = "SpanStartOrComment" /\ c.text) =>
               /\ ret' = Ok(None)
               /\ state' = Comment(state.file_diff_state, <<inp'>>)
        /\ \A span \in BOOLEAN, k \in BodyLines, a \in 1..MaxRun,
              b \in 0..MaxRun, more \in BOOLEAN :
               (/\ script.lines = ScenarioF(span, k, a, b, more)
                /\ Emitted(ret')) =>
                   ret'.v.v = Inline(<<"f">>, <<"f">>, RunLocation(k, a),
                                     IF span THEN Some(RunLocation(k, 1))
                                     ELSE None,
                                     L_text)

\* C28: in the SpanStartOrComment state an unquoted blank line leaves the
\* state as it is, and an unquoted line that is not blank moves to Comment
\* with that line as the first line of prose and the saved FileDiff (files,
\* position, line, open span) as it was; so blank lines between the last
\* quoted line of a span and its prose change neither the start_line nor
\* the line of the comment.
C28_BlankLinesKeepSpan == [][C28_Step]_vars

\* a spanned comment returned after two blank lines between the span and
\* the prose
C28_Witness ==
    /\ script.lines = ScenarioF(TRUE, L_minus, 2, 2, TRUE)
    /\ ret = Ok(Some(Inline(<<"f">>, <<"f">>, Left(2, 0), Some(Left(1, 0)),
                            L_text)))

-----------------------------------------------------------------------------
(* C29 *)

\* the edges of the diagram of the states
Edges ==
    {<<"Start", "FilePreamble">>,
     <<"FilePreamble", "FileDiff">>,
     <<"FileDiff", "FilePreamble">>,
     <<"FileDiff", "SpanStartOrComment">>,
     <<"FileDiff", "Comment">>,
     <<"SpanStartOrComment", "FileDiff">>,
     <<"SpanStartOrComment", "Comment">>,
     <<"Comment", "FileDiff">>,
     <<"Comment", "FilePreamble">>}

\* what C29 says of one call
C29_Step ==
    CallStep =>
        /\ state'.kind # state.kind => <<state.kind, state'.kind>> \in Edges
        /\ (state.kind # "Start" => state'.kind # "Start")
        /\ (state.kind = "FilePreamble" /\ state' # state) =>
               (LineFacts[inp'].hunk /\ state'.kind = "FileDiff")
        /\ (state'.kind = "Comment" /\ state.kind # "Comment") =>
               state.kind \in {"FileDiff", "SpanStartOrComment"}

\* C29: every change of state made by parse_line is an edge of the diagram:
\* Start to FilePreamble; FilePreamble to FileDiff; FileDiff to
\* FilePreamble, SpanStartOrComment or Comment; SpanStartOrComment to
\* FileDiff or Comment; Comment to FileDiff or FilePreamble.  Start is never
\* entered again, FilePreamble is left only through a hunk header, and
\* Comment is entered only from FileDiff or SpanStartOrComment.
C29_EdgesOfTheDiagram == [][C29_Step]_vars

\* a quoted diff header met in SpanStartOrComment: the parser moves to
\* FileDiff of the same file
C29_Witness ==
    /\ phase = "parsing" /\ inp = L_diff_g
    /\ state.kind = "FileDiff"
    /\ state.file_diff_state.new_file = <<"f">>
    /\ IsSome(state.file_diff_state.span_start_line)

-----------------------------------------------------------------------------
(* C30 *)

\* the tracked numbers <<left_line, right_line>> of a state that carries them
Tracked(st) == <<st.file_diff_state.left_line, st.file_diff_state.right_line>>

\* what C30 says of one call
C30_Step ==
    LET c == LineFacts[inp']
        raise == CASE c.side = "Left" -> <<1, 0>>
                   [] c.side = "Right" -> <<0, 1>>
                   [] c.side = "Both" -> <<1, 1>>
    IN  (/\ CallStep /\ HasFileDiff(state) /\ ~IsErr(ret')
         /\ ~c.diff /\ ~c.hunk) =>
            /\ HasFileDiff(state')
            /\ Tracked(state')[1] >= Tracked(state)[1]
            /\ Tracked(state')[2] >= Tracked(state)[2]
            /\ c.quoted =>
                   Tracked(state') = <<Tracked(state)[1] + raise[1],
                                       Tracked(state)[2] + raise[2]>>
            /\ ~c.quoted => Tracked(state') = Tracked(state)

\* C30: between two hunk headers of a file the tracked left and right
\* numbers never decrease as lines are consumed, in FileDiff,
\* SpanStartOrComment and Comment alike: a `-` line raises the left number
\* alone by one, a `+` line the right number alone, any other quoted body
\* line both, and an unquoted line neither.
C30_TrackedNumbersRise == [][C30_Step]_vars

\* a `-` line that ends a comment made at (1, 0)
C30_Witness ==
    /\ EmittedKind("Inline") /\ phase = "parsing" /\ inp = L_minus
    /\ Returned.line = Both(1, 0)
    /\ state.kind = "FileDiff"
    /\ Tracked(state) = <<2, 0>>

-----------------------------------------------------------------------------
(* C31 *)

\* what C31 says of one call
C31_Step ==
    (CallStep /\ IsErr(ret')) =>
        /\ state' = state
        /\ ~Emitted(ret')
        /\ finish(state') = finish(state)

\* C31: when parse_line returns an error the state of the parser is what it
\* was before the call (kind, files, position, line, span start, prose) and
\* the call returns no comment; so the pending comment of the Comment state
\* is still there after a malformed diff header.
C31_ErrorLeavesState == [][C31_Step]_vars

\* a malformed diff header met in the Comment state
C31_Witness ==
    /\ phase = "failed" /\ inp = L_diff_bad
    /\ ret = Err("InvalidDiffHeader")
    /\ state.kind = "Comment"
    /\ finish(state) = Some(pending_inline(state))

-----------------------------------------------------------------------------
(* C32 *)

\* the places of an input where a run of prose ends: the last line of a
\* maximal run of unquoted lines that has a line which is not blank and
\* lies after a hunk header
ProseRunEnds(lines) ==
    {i \in 1..Len(lines) :
        /\ ~LineFacts[lines[i]].quoted
        /\ (i < Len(lines) => LineFacts[lines[i + 1]].quoted)
        /\ \E j \in 1..i :
               /\ \A k \in j..i : ~LineFacts[lines[k]].quoted
               /\ LineFacts[lines[j]].text
               /\ \E h \in 1..j : LineFacts[lines[h]].hunk}

\* the Inline comments among the comments returned
Inlines(out) == {i \in 1..Len(out) : out[i].kind = "Inline"}

\* C32: no prose is dropped or counted twice: on an input on which no call
\* fails, the Inline comments returned are as many as the maximal runs of
\* unquoted lines after a hunk header that hold a line which is not blank,
\* one for each run, returned at the quoted line that ends the run, or by
\* finish for the run that ends the input.
C32_OneInlinePerProseRun ==
    /\ phase = "parsing" =>
           Cardinality(Inlines(Output)) =
               Cardinality({i \in ProseRunEnds(Fed) : i < Len(Fed)})
    /\ phase = "finished" =>
           Cardinality(Inlines(Output)) =
               Cardinality(ProseRunEnds(script.lines))

\* an input with a blank run and two runs of prose, the last one closed by
\* finish
C32_Witness ==
    /\ phase = "finished"
    /\ script.lines = ScenarioD(L_plus, 1, L_minus, 1, FALSE, L_plus, 1, FALSE)
    /\ Cardinality(Inlines(Output)) = 2
    /\ Len(script.lines) \in ProseRunEnds(script.lines)

-----------------------------------------------------------------------------
(* C33 *)

\* the two numbers of a LineLocation
Numbers(loc) == <<loc.l, loc.r>>

\* C33: in every state that carries a FileDiff state (FileDiff,
\* SpanStartOrComment, Comment) the two numbers of `line` are the tracked
\* left_line and right_line, and the numbers of an open span start are not
\* greater than those of `line`; so the start_line of every Inline comment
\* returned has numbers not greater than those of its line.
C33_SpanStartNotAfterLine ==
    /\ HasFileDiff(state) =>
           LET f == state.file_diff_state
           IN  /\ Numbers(f.line) = <<f.left_line, f.right_line>>
               /\ IsSome(f.span_start_line) =>
                      /\ f.span_start_line.v.l <= f.line.l
                      /\ f.span_start_line.v.r <= f.line.r
    /\ (EmittedKind("Inline") /\ IsSome(Returned.start_line)) =>
           /\ Returned.start_line.v.l <= Returned.line.l
           /\ Returned.start_line.v.r <= Returned.line.r

\* a comment on a span of two added lines
C33_Witness ==
    /\ EmittedKind("Inline")
    /\ Returned.start_line = Some(Right(0, 1))
    /\ Returned.line = Right(0, 2)

-----------------------------------------------------------------------------
(* C34 *)

\* the first line of a text: its characters before the first newline
RECURSIVE FirstLine(_)
FirstLine(text) ==
    IF text = <<>> \/ Head(text) = "\n" THEN <<>>
    ELSE <<Head(text)>> \o FirstLine(Tail(text))

\* text is full without some whitespace at its end
CutAtEnd(text, full) ==
    /\ Len(text) <= Len(full)
    /\ SubSeq(full, 1, Len(text)) = text
    /\ \A i \in (Len(text) + 1)..Len(full) : is_whitespace(full[i])

\* what C34 says of one call of parse_line or finish
C34_Step ==
    /\ (Emitted(ret') /\ ret'.v.v.kind = "Inline") =>
           /\ ret'.v.v.comment # <<>>
           /\ trim(FirstLine(ret'.v.v.comment)) # <<>>
           /\ state.kind = "Comment"
           /\ CutAtEnd(ret'.v.v.comment, join(state.comment))
    /\ (CallStep /\ state'.kind = "Comment" /\ state.kind # "Comment") =>
           /\ state'.comment = <<inp'>>
           /\ trim(inp') # <<>>

\* C34: the text of every Inline comment returned, by parse_line or by
\* finish, is not empty and starts with a line that is not blank: the
\* Comment state is entered with a first line of prose that is not blank,
\* and the text is the prose without whitespace at its end only.
C34_InlineTextStartsWithProse == [][C34_Step]_vars

\* a comment whose first line starts with whitespace and whose last lines
\* are blank
C34_Witness ==
    /\ EmittedKind("Inline")
    /\ ctx.region = <<L_padded, L_blank, L_space>>
    /\ Returned.comment = <<" ", "c">>

=============================================================================
